---- MODULE Spec2Model ----
(***************************************************************************)
(* A model of flag.py: the metaclass FlaggedEnumMeta (declaration of a     *)
(* flag-set type, value generation, lookup, iteration, containment) and    *)
(* the base class FlaggedEnum (AND, OR with interning).                    *)
(*                                                                         *)
(* Objects live in `heap`; the identity of a flag instance is its index    *)
(* in the heap (FlaggedEnum.__eq__ is `self is other`).  Python integers   *)
(* are unbounded two's-complement numbers; the bitwise operators below     *)
(* are defined on TLA+ integers with exactly that meaning.                 *)
(*                                                                         *)
(* Two flag-set types exist: "T", declared by the action MetaInit from a   *)
(* class body drawn in Init, and "U", a second type that is already        *)
(* declared in Init (class U(FlaggedEnum): x = 1) and supplies operands    *)
(* of a foreign type.                                                      *)
(***************************************************************************)
EXTENDS Integers, Sequences, FiniteSets, TLC

VARIABLES
    attrs,           \* the class body of T: the ordered (name, value) pairs
    status,          \* "pending", "created", or the exception that ended __init__
    raised_name,     \* the argument of RepeatedFlagValueError, "" otherwise
    heap,            \* every flag instance: [cls, name, value]; identity = index
    declared_flags,  \* cls._declared_flags, per class, in its iteration order
    all_flags,       \* cls._all_flags, per class, in its iteration order
    namespace,       \* what getattr(cls, name) finds, per class
    call,            \* the last operation called and its operands
    ret              \* what the last operation returned or raised

vars == <<attrs, status, raised_name, heap, declared_flags, all_flags, namespace, call, ret>>

registry == <<attrs, status, raised_name, heap, declared_flags, all_flags, namespace>>

-----------------------------------------------------------------------------
(* Bounds of the model.                                                    *)

\* the largest number of entries in the class body of T
MaxFlags == 3
\* explicit values are drawn from -MaxNeg .. MaxVal
MaxVal == 2
MaxNeg == 2
\* the largest number of entries in the class body of a type that is used
MaxUsed == 2
\* OR creates at most this many new instances of one type in one run
MaxCombos == 1

\* a value no flag of the model has (flag_test.py looks up MyEnum[322])
NotFoundValue == 322

-----------------------------------------------------------------------------
(* Python's int operators &, |, ~ on unbounded two's-complement integers.  *)

RECURSIVE BitAnd(_, _)
BitAnd(a, b) ==
    IF a = 0 \/ b = 0 THEN 0
    ELSE IF a = -1 THEN b
    ELSE IF b = -1 THEN a
    ELSE (a % 2) * (b % 2) + 2 * BitAnd(a \div 2, b \div 2)

BitNot(a) == -a - 1

BitOr(a, b) == BitNot(BitAnd(BitNot(a), BitNot(b)))

RECURSIVE Pow2(_)
Pow2(n) == IF n = 0 THEN 1 ELSE 2 * Pow2(n - 1)

-----------------------------------------------------------------------------
(* Values of class-body entries.                                           *)

IntVal(v)  == [kind |-> "int", v |-> v]
AutoVal    == [kind |-> "auto", v |-> 0]         \* the marker `auto`
StrVal     == [kind |-> "str", v |-> 0]          \* a string such as 'lowercase'
FuncVal    == [kind |-> "function", v |-> 0]     \* a def in the class body

EntryValues == {IntVal(v) : v \in (0 - MaxNeg)..MaxVal} \cup {AutoVal, StrVal, FuncVal}

\* the public name of the i-th entry, and its private variant
PublicNames == <<"a", "b", "c", "d", "e">>
PrivateName(n) == "_" \o n
PrivateNames == {PrivateName(PublicNames[i]) : i \in 1..Len(PublicNames)}

Classes == {"T", "U"}

NoRet == [kind |-> "none", obj |-> 0, int |-> 0, seq |-> <<>>, txt |-> ""]
NoCall == [op |-> "none", cls |-> "", self |-> 0, other |-> 0, int |-> 0, txt |-> ""]

Ret(kind, obj, int, seq, txt) == [kind |-> kind, obj |-> obj, int |-> int, seq |-> seq, txt |-> txt]
RetFlag(obj)  == Ret("flag", obj, 0, <<>>, "")
RetInt(v)     == Ret("int", 0, v, <<>>, "")
RetBool(b)    == Ret("bool", 0, IF b THEN 1 ELSE 0, <<>>, "")
RetIter(seq)  == Ret("iter", 0, 0, seq, "")
RetAttr(what) == Ret("attr", 0, 0, <<>>, what)
Raise(exc)    == Ret("error", 0, 0, <<>>, exc)

Range(seq) == {seq[i] : i \in 1..Len(seq)}

-----------------------------------------------------------------------------
(* The iteration order of a Python set of flag instances.                  *)
(*                                                                         *)
(* FlaggedEnum.__hash__ returns self.value and __eq__ is identity, so a    *)
(* set of flags is a hash table keyed by value in which equal values       *)
(* collide.  CPython iterates a set in slot order.  A set of fewer than    *)
(* five elements lives in a table of 8 slots, which is never resized, and  *)
(* frozenset(s) copies such a table slot by slot.                          *)

\* hash(flag): the value __hash__ returns; CPython reserves -1 and gives -2
PyHash(value) == IF value = -1 THEN -2 ELSE value

\* the slot an entry is stored in, probing from slot i: while the slot is
\* taken, perturb >>= 5; i = (i * 5 + 1 + perturb) & mask.  perturb is the
\* hash as an unsigned 64-bit number: a negative hash keeps its low bits set
\* for twelve shifts, and the thirteenth leaves 0.
RECURSIVE FreeSlot(_, _, _, _)
FreeSlot(table, i, perturb, shifts) ==
    IF table[i] = 0 THEN i
    ELSE LET shifted == IF perturb < 0 /\ shifts >= 12 THEN 0 ELSE perturb \div 32
         IN FreeSlot(table, (i * 5 + 1 + shifted) % 8, shifted, shifts + 1)

\* the table after the flags `ids` were added in that order
RECURSIVE SetAdd(_, _, _)
SetAdd(table, ids, h) ==
    IF ids = <<>> THEN table
    ELSE LET hash == PyHash(h[Head(ids)].value)
             slot == FreeSlot(table, hash % 8, hash, 0)
         IN SetAdd([table EXCEPT ![slot] = Head(ids)], Tail(ids), h)

\* the order in which a set iterates the flags `ids`, added in that order
SetOrder(ids, h) ==
    LET table == SetAdd([i \in 0..7 |-> 0], ids, h)
        slots == [i \in 1..8 |-> table[i - 1]]
    IN SelectSeq(slots, LAMBDA x : x # 0)

-----------------------------------------------------------------------------
(* AutoGen: the generator of legal flag values.  Its state is the mask     *)
(* _reserved_values.                                                       *)

\* AutoGen.__init__: reduce(lambda acc, val: acc | val, reserved_values, 0)
RECURSIVE AutoGenInit(_)
AutoGenInit(reserved_values) ==
    IF reserved_values = <<>> THEN 0
    ELSE BitOr(AutoGenInit(SubSeq(reserved_values, 1, Len(reserved_values) - 1)),
               reserved_values[Len(reserved_values)])

\* AutoGen.__next__, the value returned
AutoGenNext(reserved) ==
    BitNot(reserved) - BitAnd(BitNot(reserved), BitNot(reserved) - 1)

\* AutoGen.__next__, the mask left behind: self._reserved_values |= next_val
AutoGenReserve(reserved) == BitOr(reserved, AutoGenNext(reserved))

-----------------------------------------------------------------------------
(* FlaggedEnumMeta.                                                        *)

StartsWith(name, prefix) ==
    Len(name) >= Len(prefix) /\ SubSeq(name, 1, Len(prefix)) = prefix

\* FlaggedEnumMeta._is_flag_def
IsFlagDef(name, value) ==
    value.kind # "function" /\ ~StartsWith(name, "_")

\* a plausible bug: the new instance is not added to cls._all_flags
M_MetaCall_Unregistered(c, name, value, h, af) ==
    IF value.kind # "int"
    THEN [raised |-> TRUE, heap |-> h, all |-> af, obj |-> 0]
    ELSE [raised |-> FALSE,
          heap   |-> Append(h, [cls |-> c, name |-> name, value |-> value.v]),
          all    |-> af,
          obj    |-> Len(h) + 1]

\* FlaggedEnumMeta.__call__: cls(name=..., value=...) on heap h and on the
\* class's _all_flags af.  The new instance is the next heap index.
MetaCall(c, name, value, h, af) ==
    IF value.kind # "int"
    THEN [raised |-> TRUE, heap |-> h, all |-> af, obj |-> 0]
    ELSE [raised |-> FALSE,
          heap   |-> Append(h, [cls |-> c, name |-> name, value |-> value.v]),
          all    |-> Append(af, Len(h) + 1),
          obj    |-> Len(h) + 1]

\* the set comprehension of __init__ (lines 57-61): one cls(...) per explicit
\* flag definition of the class body, in the order of the body.  `ids` are
\* the flags added to declared_flags so far, in the order they were added.
RECURSIVE CreateExplicit(_, _, _, _, _)
CreateExplicit(c, body, h, af, ids) ==
    IF body = <<>> THEN [raised |-> FALSE, heap |-> h, all |-> af, ids |-> ids]
    ELSE LET e == Head(body) IN
         IF IsFlagDef(e.name, e.value) /\ e.value.kind # "auto"
         THEN LET r == MetaCall(c, e.name, e.value, h, af) IN
              IF r.raised THEN [raised |-> TRUE, heap |-> h, all |-> af, ids |-> ids]
              ELSE CreateExplicit(c, Tail(body), r.heap, r.all, Append(ids, r.obj))
         ELSE CreateExplicit(c, Tail(body), h, af, ids)

\* the loop of __init__ (lines 64-66): one cls(name, next(auto_gen)) per entry
\* whose value is the auto marker, in the order of the body
RECURSIVE CreateAuto(_, _, _, _, _, _)
CreateAuto(c, body, reserved, h, af, ids) ==
    IF body = <<>> THEN [heap |-> h, all |-> af, ids |-> ids]
    ELSE LET e == Head(body) IN
         IF e.value.kind = "auto"
         THEN LET r == MetaCall(c, e.name, IntVal(AutoGenNext(reserved)), h, af) IN
              CreateAuto(c, Tail(body), AutoGenReserve(reserved), r.heap, r.all,
                         Append(ids, r.obj))
         ELSE CreateAuto(c, Tail(body), reserved, h, af, ids)

\* a plausible bug: flags clash only when the value repeats the mask so far
RECURSIVE M_AssertUniqueFlags_Equal(_, _, _)
M_AssertUniqueFlags_Equal(order, h, composition) ==
    IF order = <<>> THEN ""
    ELSE LET flag == h[Head(order)] IN
         IF composition = flag.value THEN flag.name
         ELSE M_AssertUniqueFlags_Equal(Tail(order), h, BitOr(composition, flag.value))

\* FlaggedEnumMeta._assert_unique_flags over the iteration order `order` of
\* _declared_flags: "" when it returns, else the name it raises with
RECURSIVE AssertUniqueFlags(_, _, _)
AssertUniqueFlags(order, h, composition) ==
    IF order = <<>> THEN ""
    ELSE LET flag == h[Head(order)] IN
         IF BitAnd(composition, flag.value) # 0 THEN flag.name
         ELSE AssertUniqueFlags(Tail(order), h, BitOr(composition, flag.value))

\* what getattr(cls, name) finds on every flag-set type before its flags are
\* set: the properties of __init__, the registries, the metaclass's methods
BaseNamespace ==
    [n \in {"name", "value", "_all_flags", "_declared_flags",
            "get_by_name", "get_by_value"} |->
        IF n \in {"name", "value"} THEN RetAttr("property")
        ELSE IF n \in {"_all_flags", "_declared_flags"} THEN RetAttr("set")
        ELSE RetAttr("method")]

\* the loop of __init__ (lines 70-71): setattr(cls, flag.name, flag)
SetFlagAttrs(order, h, ns) ==
    [n \in DOMAIN ns \cup {h[order[i]].name : i \in 1..Len(order)} |->
        IF \E i \in 1..Len(order) : h[order[i]].name = n
        THEN RetFlag(CHOOSE f \in Range(order) : h[f].name = n)
        ELSE ns[n]]

\* FlaggedEnumMeta.__init__ for class c with class body `body`, on heap h
MetaInitResult(c, body, h) ==
    LET ex == CreateExplicit(c, body, h, <<>>, <<>>) IN
    IF ex.raised
    THEN [status |-> "IllegalFlagValueError", raised_name |-> "", heap |-> h,
          declared |-> <<>>, all |-> <<>>, namespace |-> BaseNamespace]
    ELSE LET reserved == AutoGenInit([i \in 1..Len(ex.ids) |-> ex.heap[ex.ids[i]].value])
             au       == CreateAuto(c, body, reserved, ex.heap, ex.all, ex.ids)
             order    == SetOrder(au.ids, au.heap)
             clash    == AssertUniqueFlags(order, au.heap, 0)
         IN IF clash # ""
            THEN [status |-> "RepeatedFlagValueError", raised_name |-> clash, heap |-> h,
                  declared |-> <<>>, all |-> <<>>, namespace |-> BaseNamespace]
            ELSE [status |-> "created", raised_name |-> "", heap |-> au.heap,
                  declared |-> order, all |-> au.all,
                  namespace |-> SetFlagAttrs(order, au.heap, BaseNamespace)]

-----------------------------------------------------------------------------
(* The class bodies T is declared from.                                    *)

\* the class body of n entries that holds values[i] under PublicNames[i], or
\* under its private variant where private[i]
Body(n, values, private) ==
    [i \in 1..n |-> [name  |-> IF private[i] THEN PrivateName(PublicNames[i])
                               ELSE PublicNames[i],
                     value |-> values[i]]]

\* the values a class body that is used holds: integers and auto markers
UsedValues == {v \in EntryValues : v.kind \in {"int", "auto"}}

\* class U(FlaggedEnum): x = 1
BodyU == << [name |-> "x", value |-> IntVal(1)] >>

InitU == MetaInitResult("U", BodyU, <<>>)

\* the state before the class statement of T, whose body has at most `most`
\* entries, holds values of the set `values` and, if `private`, private names
InitWith(most, values, private) ==
    /\ \E n \in 1..most :
         \E vs \in [1..n -> values], ps \in [1..n -> {FALSE} \cup {private}] :
            attrs = Body(n, vs, ps)
    /\ status = "pending"
    /\ raised_name = ""
    /\ heap = InitU.heap
    /\ declared_flags = [c \in Classes |-> IF c = "U" THEN InitU.declared ELSE <<>>]
    /\ all_flags = [c \in Classes |-> IF c = "U" THEN InitU.all ELSE <<>>]
    /\ namespace = [c \in Classes |-> IF c = "U" THEN InitU.namespace ELSE BaseNamespace]
    /\ call = NoCall
    /\ ret = NoRet

\* the class statement of T: FlaggedEnumMeta.__init__ runs to its end or raises
MetaInit ==
    /\ status = "pending"
    /\ LET r == MetaInitResult("T", attrs, heap)
       IN /\ status' = r.status
          /\ raised_name' = r.raised_name
          /\ heap' = r.heap
          /\ declared_flags' = [declared_flags EXCEPT !["T"] = r.declared]
          /\ all_flags' = [all_flags EXCEPT !["T"] = r.all]
          /\ namespace' = [namespace EXCEPT !["T"] = r.namespace]
    /\ UNCHANGED <<attrs, call, ret>>

-----------------------------------------------------------------------------
(* FlaggedEnum: the operations on instances, and the queries on a type.    *)

\* isinstance(item, cls): the model has no subclass of a flag-set type
IsInstance(item, c, h) == h[item].cls = c

\* the first flag in the iteration order `order` whose value is v, 0 if none
\* (the loops `for flag in ...: if flag.value == v: return flag`)
FirstWithValue(order, h, v) ==
    IF \E i \in 1..Len(order) : h[order[i]].value = v
    THEN order[CHOOSE i \in 1..Len(order) :
                   /\ h[order[i]].value = v
                   /\ \A j \in 1..(i - 1) : h[order[j]].value # v]
    ELSE 0

\* a plausible bug: the operands' names in the other order
M_CompoundName_Swapped(self_name, other_name) == other_name \o "|" \o self_name

\* f'{self.name}|{other.name}'
CompoundName(self_name, other_name) == self_name \o "|" \o other_name

\* FlaggedEnum.__and__
FlagAnd(self, other, h) ==
    IF ~IsInstance(other, h[self].cls, h) THEN Raise("TypeError")
    ELSE RetInt(BitAnd(h[self].value, h[other].value))

\* a plausible bug: no search of _all_flags, every OR makes a new instance
M_FlagOr_NoIntern(self, other, h, af) ==
    LET c == h[self].cls IN
    IF ~IsInstance(other, c, h)
    THEN [ret |-> Raise("TypeError"), heap |-> h, all |-> af]
    ELSE LET r == MetaCall(c, CompoundName(h[self].name, h[other].name),
                           IntVal(BitOr(h[self].value, h[other].value)), h, af)
         IN [ret |-> RetFlag(r.obj), heap |-> r.heap, all |-> r.all]

\* FlaggedEnum.__or__ on heap h, with af the _all_flags of self's class
FlagOr(self, other, h, af) ==
    LET c == h[self].cls IN
    IF ~IsInstance(other, c, h)
    THEN [ret |-> Raise("TypeError"), heap |-> h, all |-> af]
    ELSE LET compound_value == BitOr(h[self].value, h[other].value)
             flag == FirstWithValue(af, h, compound_value)
         IN IF flag # 0
            THEN [ret |-> RetFlag(flag), heap |-> h, all |-> af]
            ELSE LET r == MetaCall(c, CompoundName(h[self].name, h[other].name),
                                   IntVal(compound_value), h, af)
                 IN [ret |-> RetFlag(r.obj), heap |-> r.heap, all |-> r.all]

\* FlaggedEnumMeta.__iter__: yield from cls._declared_flags
MetaIter(c, decl) == RetIter(decl[c])

\* FlaggedEnumMeta.get_by_name: getattr(cls, name), AttributeError -> IndexError
GetByNameResult(c, name, ns) ==
    IF name \in DOMAIN ns[c] THEN ns[c][name] ELSE Raise("IndexError")

\* a plausible bug: the search runs over _all_flags, combinations included
M_GetByValue_AllFlags(c, value, h, decl) ==
    LET flag == FirstWithValue(all_flags[c], h, value) IN
    IF flag # 0 THEN RetFlag(flag) ELSE Raise("IndexError")

\* FlaggedEnumMeta.get_by_value
GetByValueResult(c, value, h, decl) ==
    LET flag == FirstWithValue(decl[c], h, value) IN
    IF flag # 0 THEN RetFlag(flag) ELSE Raise("IndexError")

\* FlaggedEnumMeta.__contains__
MetaContains(c, item, h, af) ==
    IsInstance(item, c, h) /\ item \in Range(af[c])

Objects == 1..Len(heap)

\* the instances of class c that OR created
Combos(c) == Range(all_flags[c]) \ Range(declared_flags[c])

\* names looked up by get_by_name: the names a class body can hold, the name
\* of a combination, an attribute of every type, and a name nothing has
QueryNames ==
    {PublicNames[i] : i \in 1..MaxUsed} \cup {"a|b", "get_by_name", "nonexistent"}

\* values looked up by get_by_value
QueryValues == {heap[o].value : o \in Objects} \cup {NotFoundValue}

\* self | other
Or(self, other) ==
    /\ status = "created"
    /\ LET c == heap[self].cls
           r == FlagOr(self, other, heap, all_flags[c])
       IN /\ Len(r.heap) > Len(heap) => Cardinality(Combos(c)) < MaxCombos
          /\ heap' = r.heap
          /\ all_flags' = [all_flags EXCEPT ![c] = r.all]
          /\ ret' = r.ret
    /\ call' = [NoCall EXCEPT !.op = "or", !.self = self, !.other = other]
    /\ UNCHANGED <<attrs, status, raised_name, declared_flags, namespace>>

\* self & other
And(self, other) ==
    /\ status = "created"
    /\ ret' = FlagAnd(self, other, heap)
    /\ call' = [NoCall EXCEPT !.op = "and", !.self = self, !.other = other]
    /\ UNCHANGED registry

\* list(cls)
Iter(c) ==
    /\ status = "created"
    /\ ret' = MetaIter(c, declared_flags)
    /\ call' = [NoCall EXCEPT !.op = "iter", !.cls = c]
    /\ UNCHANGED registry

\* cls.get_by_name(name)
GetByName(c, name) ==
    /\ status = "created"
    /\ ret' = GetByNameResult(c, name, namespace)
    /\ call' = [NoCall EXCEPT !.op = "get_by_name", !.cls = c, !.txt = name]
    /\ UNCHANGED registry

\* cls.get_by_value(value)
GetByValue(c, value) ==
    /\ status = "created"
    /\ ret' = GetByValueResult(c, value, heap, declared_flags)
    /\ call' = [NoCall EXCEPT !.op = "get_by_value", !.cls = c, !.int = value]
    /\ UNCHANGED registry

\* item in cls
Contains(c, item) ==
    /\ status = "created"
    /\ ret' = RetBool(MetaContains(c, item, heap, all_flags))
    /\ call' = [NoCall EXCEPT !.op = "contains", !.cls = c, !.other = item]
    /\ UNCHANGED registry

Next ==
    \/ MetaInit
    \/ \E self \in Objects, other \in Objects : Or(self, other)
    \/ \E self \in Objects, other \in Objects : And(self, other)
    \/ Iter("T")
    \/ \E name \in QueryNames : GetByName("T", name)
    \/ \E value \in QueryValues : GetByValue("T", value)
    \/ \E item \in Objects : Contains("T", item)

\* a type is declared and then used
Init == InitWith(MaxUsed, UsedValues, FALSE)

Spec == Init /\ [][Next]_vars

\* a type is declared, from any class body
InitDecl == InitWith(MaxFlags, EntryValues, TRUE)

NextDecl == MetaInit

SpecDecl == InitDecl /\ [][NextDecl]_vars

-----------------------------------------------------------------------------
(* Vocabulary of the properties.                                           *)

Value(o) == heap[o].value
Name(o) == heap[o].name
Declared == declared_flags["T"]
AllT == Range(all_flags["T"])

\* entry i of the class body defines a flag with a literal value
IsExplicit(i) == IsFlagDef(attrs[i].name, attrs[i].value) /\ attrs[i].value.kind # "auto"
\* entry i of the class body is an auto marker
IsAuto(i) == attrs[i].value.kind = "auto"

\* the flag that entry i of the class body became
FlagOf(i) == CHOOSE o \in AllT : Name(o) = attrs[i].name

\* every literal value of the class body is a non-negative integer
NonNegativeBody ==
    \A i \in 1..Len(attrs) :
        IsExplicit(i) => (attrs[i].value.kind = "int" /\ attrs[i].value.v >= 0)

\* the names of the declared flags in the order of the class body
DeclarationOrder ==
    LET kept == SelectSeq([i \in 1..Len(attrs) |-> i], LAMBDA i : IsExplicit(i) \/ IsAuto(i))
    IN [k \in 1..Len(kept) |-> attrs[kept[k]].name]

-----------------------------------------------------------------------------
(* C1: in every flag-set type whose declaration succeeds, any two distinct *)
(* declared flags, explicit or auto-assigned, have value-AND zero.         *)
C1_DeclaredDisjoint ==
    status = "created" =>
        \A i, j \in 1..Len(Declared) :
            i # j => BitAnd(Value(Declared[i]), Value(Declared[j])) = 0

\* a type of three flags, explicit and auto-assigned, one explicit after an auto
C1_Witness ==
    /\ status = "created"
    /\ Len(Declared) = 3
    /\ \E i, j \in 1..Len(attrs) : i < j /\ IsAuto(i) /\ IsExplicit(j) /\ attrs[j].value.v > 0

(* C2: for every integer v, a declaration that gives two flags the same    *)
(* explicit value v fails with RepeatedFlagValueError and creates no type. *)
C2_SameValueRaises ==
    (/\ status # "pending"
     /\ \A i \in 1..Len(attrs) : IsExplicit(i) => attrs[i].value.kind = "int"
     /\ \E i, j \in 1..Len(attrs) :
            i # j /\ IsExplicit(i) /\ IsExplicit(j) /\ attrs[i].value.v = attrs[j].value.v)
    => (status = "RepeatedFlagValueError" /\ Declared = <<>>)

(* C3: a OR b and b OR a return the very same object, its value is         *)
(* a.value | b.value, and every later OR whose operands have that union    *)
(* value returns that object again.  In every state an OR has returned r   *)
(* in, r holds the union and every OR of that union value returns r; and   *)
(* no step changes what an OR of an already interned union returns.        *)
C3_State ==
    (call.op = "or" /\ ret.kind = "flag") =>
        LET c == heap[call.self].cls IN
        /\ Value(ret.obj) = BitOr(Value(call.self), Value(call.other))
        /\ \A s, o \in Objects :
              (/\ heap[s].cls = c
               /\ heap[o].cls = c
               /\ BitOr(Value(s), Value(o)) = Value(ret.obj))
              => FlagOr(s, o, heap, all_flags[c]) =
                     [ret |-> RetFlag(ret.obj), heap |-> heap, all |-> all_flags[c]]

C3_Step ==
    \/ UNCHANGED <<heap, all_flags>>
    \/ \A s, o \in Objects :
          LET c == heap[s].cls
              r == FlagOr(s, o, heap, all_flags[c])
          IN (r.ret.kind = "flag" /\ r.heap = heap)
             => FlagOr(s, o, heap', all_flags'[c]).ret = r.ret

\* C3, as the invariant and the step property together
C3_OrCanonical == []C3_State /\ [][C3_Step]_vars

\* b | a returns the combination that an earlier a | b created
C3_Witness ==
    /\ call.op = "or"
    /\ ret.kind = "flag"
    /\ ret.obj \in Combos("T")
    /\ call.self \notin Combos("T")
    /\ call.other \notin Combos("T")
    /\ Name(ret.obj) = CompoundName(Name(call.other), Name(call.self))
    /\ Name(call.self) # Name(call.other)

C5_NameLookup ==
    (call.op = "get_by_name" /\ NonNegativeBody) =>
        IF \E o \in Range(Declared) : Name(o) = call.txt
        THEN /\ ret.kind = "flag"
             /\ ret.obj \in Range(Declared)
             /\ Name(ret.obj) = call.txt
        ELSE ret = Raise("IndexError")

(* C6: iterating a type yields exactly its declared flags, each once, in   *)
(* the order in which they were declared, and no combination.  It is      *)
(* stated of the types whose literal values are non-negative integers.     *)
C6_IterInDeclarationOrder ==
    (call.op = "iter" /\ NonNegativeBody) =>
        [k \in 1..Len(ret.seq) |-> Name(ret.seq[k])] = DeclarationOrder

(* C7: a declaration with a literal flag value that is not a non-negative  *)
(* integer fails with IllegalFlagValueError, so every flag instance of a   *)
(* constructed type has a non-negative integer value.                      *)
C7_IllegalValueRaises ==
    /\ (/\ status # "pending"
        /\ \E i \in 1..Len(attrs) :
              IsExplicit(i) /\ ~(attrs[i].value.kind = "int" /\ attrs[i].value.v >= 0))
       => status = "IllegalFlagValueError"
    /\ status = "created" => \A o \in AllT : Value(o) >= 0

(* C8: each auto flag, in declaration order, receives the smallest power   *)
(* of two whose bit is set in no explicit value of the declaration and in  *)
(* no auto value assigned before it.                                       *)
C8_AutoSmallestFreeBit ==
    status = "created" =>
        \A i \in 1..Len(attrs) :
            IsAuto(i) =>
                LET reserved == {attrs[j].value.v : j \in {k \in 1..Len(attrs) : IsExplicit(k)}}
                                \cup {Value(FlagOf(j)) : j \in {k \in 1..(i - 1) : IsAuto(k)}}
                    free(n)  == \A r \in reserved : BitAnd(r, Pow2(n)) = 0
                IN \E n \in 0..(MaxVal + MaxFlags) :
                      /\ Value(FlagOf(i)) = Pow2(n)
                      /\ free(n)
                      /\ \A m \in 0..(n - 1) : ~free(m)

(* C9: at every point of any sequence of ORs, every declared flag and      *)
(* every instance an OR returned is reported as contained in its type:     *)
(* every instance of T is one of these, and `in` answers True for it.      *)
C9_Contained ==
    /\ status = "created" =>
          \A o \in Objects : heap[o].cls = "T" => MetaContains("T", o, heap, all_flags)
    /\ (call.op = "or" /\ ret.kind = "flag") =>
          MetaContains(heap[call.self].cls, ret.obj, heap, all_flags)
    /\ (call.op = "contains" /\ heap[call.other].cls = "T") => ret = RetBool(TRUE)

\* a combination created by OR is tested and found
C9_Witness ==
    /\ call.op = "contains"
    /\ call.other \in Combos("T")
    /\ ret = RetBool(TRUE)

(* C10: once the type is defined, no call changes the declared collection  *)
(* or the name or value of an existing instance; the collection of all     *)
(* instances grows by exactly one instance, named self.name|other.name, on *)
(* an OR whose union value no existing instance holds, and is unchanged by *)
(* every other call, failing calls included.                               *)
C10_Step ==
    status = "created" =>
        /\ declared_flags' = declared_flags
        /\ namespace' = namespace
        /\ Len(heap') >= Len(heap)
        /\ \A o \in Objects : heap'[o] = heap[o]
        /\ IF /\ call'.op = "or"
              /\ heap[call'.other].cls = heap[call'.self].cls
              /\ \A f \in Range(all_flags[heap[call'.self].cls]) :
                    Value(f) # BitOr(Value(call'.self), Value(call'.other))
           THEN LET c == heap[call'.self].cls
                    new == Len(heap) + 1
                IN /\ Len(heap') = new
                   /\ heap'[new] = [cls   |-> c,
                                    name  |-> Name(call'.self) \o "|" \o Name(call'.other),
                                    value |-> BitOr(Value(call'.self), Value(call'.other))]
                   /\ Range(all_flags'[c]) = Range(all_flags[c]) \cup {new}
                   /\ Len(all_flags'[c]) = Len(all_flags[c]) + 1
                   /\ \A d \in Classes \ {c} : all_flags'[d] = all_flags[d]
                   /\ ret' = RetFlag(new)
           ELSE heap' = heap /\ all_flags' = all_flags

\* C10, as a property of every step
C10_Frame == [][C10_Step]_vars

\* an OR has just created the combination it returned; a failing call of
\* each kind is reachable from there
C10_Witness ==
    /\ call.op = "or"
    /\ ret = RetFlag(Len(heap))
    /\ Len(heap) \in Combos("T")
    /\ Name(Len(heap)) = Name(call.self) \o "|" \o Name(call.other)

====
